---- MODULE Spec2Model ----
(***************************************************************************)
(* A model of PropertySearcher (src/property_searcher.py): the weighted    *)
(* Reciprocal Rank Fusion of per-facet ranked lists (_weighted_rrf_merge)  *)
(* the post-search record filter (apply_filters), and the search that uses *)
(* both against the vector store (search_similar_properties), together    *)
(* with the two functions of src/property_match.py that write the store:   *)
(* PropertyIndexer.index_property and initialize_collections.              *)
(*                                                                         *)
(* Numbers.  Weights are held in tenths (0.4 is 4).  A fused score is a     *)
(* Python float: an IEEE-754 binary64, held exactly as a sign and a         *)
(* magnitude counted in units of 2^-62, and computed with the rounding of   *)
(* binary64 (to nearest, ties to even) at every division, product and sum.  *)
(***************************************************************************)
EXTENDS Integers, Sequences, FiniteSets, TLC

VARIABLES
    search_results,   \* argument of _weighted_rrf_merge: the dict facet -> ranked ids, in insertion order
    weights,          \* argument of _weighted_rrf_merge: the dict facet -> weight (tenths)
    merged,           \* what _weighted_rrf_merge returned: a sequence of (id, score)
    outcome,          \* "pending" before the call, then "returned" or the name of the exception raised
    properties,       \* argument of apply_filters: the list of record dicts
    filters,          \* argument of apply_filters: None or a PropertyFilters
    filtered_results, \* what apply_filters returned
    filter_outcome,   \* "pending" before the call, then "returned" or "raised"
    client,           \* self.client: the content of the vector store, and which of its calls fail
    self_search_modes, \* self.search_modes: the weight-profile table of the searcher
    calls,            \* the calls of search_similar_properties: arguments, locals and position of each
    indexing,         \* the call of index_property: argument, position and return value
    setup             \* the call of initialize_collections: position

vars == <<search_results, weights, merged, outcome,
          properties, filters, filtered_results, filter_outcome,
          client, self_search_modes, calls, indexing, setup>>

fusion_vars == <<search_results, weights, merged, outcome>>

filter_vars == <<properties, filters, filtered_results, filter_outcome>>

search_vars == <<client, self_search_modes, calls, indexing, setup>>

\* Optional values: None is the empty sequence, a value v is <<v>>
None == <<>>

Some(v) == <<v>>

(***************************************************************************)
(* Bounds of the model.                                                    *)
(***************************************************************************)
NumIds == 3          \* how many entity ids the generic ranked lists draw from
MaxLen == 2          \* longest generic ranked list
MaxRecs == 3         \* longest generic record list of more than one record
MaxTopK == 2         \* largest top_k a search is called with
NumCalls == 2        \* how many calls of search_similar_properties run interleaved

(***************************************************************************)
(* Program constants.                                                      *)
(***************************************************************************)
K == 60              \* default of the parameter k of _weighted_rrf_merge

Facets == <<"location", "features", "visual">>

FacetSet == {Facets[i] : i \in 1..Len(Facets)}

\* self.search_modes, weights in tenths
search_modes ==
    [balanced       |-> [location |-> 4, features |-> 4, visual |-> 2],
     visual_focus   |-> [location |-> 1, features |-> 1, visual |-> 8],
     features_focus |-> [location |-> 1, features |-> 8, visual |-> 1],
     location_focus |-> [location |-> 8, features |-> 1, visual |-> 1]]

(***************************************************************************)
(* Input domains.                                                          *)
(***************************************************************************)
IdName == <<"A", "B", "C", "D", "E">>

IDs == {IdName[i] : i \in 1..NumIds}

\* a ranked list as the vector store returns it: no id twice
RankedLists ==
    UNION {{l \in [1..n -> IDs] : \A i, j \in 1..n : l[i] = l[j] => i = j} : n \in 0..MaxLen}

\* search_results as search_similar_properties builds it: one entry per facet, in the loop's order
FacetMap(lists) == [i \in 1..Len(Facets) |-> [key |-> Facets[i], results |-> lists[i]]]

ScenarioResults ==
    FacetMap(<< <<"A", "B", "C">>, <<"B", "C", "A">>, <<"C", "A", "B">> >>)

FusionInputs ==
    {FacetMap(l) : l \in [1..Len(Facets) -> RankedLists]} \cup {ScenarioResults, <<>>}

\* weight profiles: the built-in table, profiles with zero weights, profiles with a negative
\* weight, and one without a key
WeightProfiles ==
    {search_modes[m] : m \in DOMAIN search_modes}
        \cup [FacetSet -> {0, 4}]
        \cup {[search_modes.balanced EXCEPT ![f] = -2] : f \in FacetSet}
        \cup {[f \in {"features", "visual"} |-> 4]}

(***************************************************************************)
(* _weighted_rrf_merge                                                     *)
(***************************************************************************)
(***************************************************************************)
(* binary64 arithmetic, as far as line 206 uses it: the literal weights,   *)
(* 1 / n, the product and the running sum.  Naturals are little-endian     *)
(* sequences of bits where they are rounded, and pairs of limbs where they *)
(* are added.                                                              *)
(***************************************************************************)
Precision == 53      \* significant bits of a binary64
UnitExp == 62        \* a float is held as a multiple of 2^-UnitExp
LimbBits == 28       \* a magnitude is hi * Limb + lo
SmallBits == 14      \* limb width of the operands of a product

Limb == 2^LimbBits

Small == 2^SmallBits

RECURSIVE BitsValue(_)
BitsValue(bits) == IF bits = <<>> THEN 0 ELSE Head(bits) + 2 * BitsValue(Tail(bits))

RECURSIVE BitsInc(_)
BitsInc(bits) ==
    IF bits = <<>> THEN <<1>>
    ELSE IF Head(bits) = 0 THEN <<1>> \o Tail(bits)
    ELSE <<0>> \o BitsInc(Tail(bits))

RECURSIVE BitsOf(_, _)
BitsOf(n, width) == IF width = 0 THEN <<>> ELSE <<n % 2>> \o BitsOf(n \div 2, width - 1)

RECURSIVE Trimmed(_)
Trimmed(bits) ==
    IF bits = <<>> \/ bits[Len(bits)] = 1 THEN bits ELSE Trimmed(SubSeq(bits, 1, Len(bits) - 1))

Zeros(n) == [i \in 1..n |-> 0]

\* bits rounded to Precision significant bits, ties to even; sticky says a nonzero part below bits was cut
RoundBits(bits0, sticky) ==
    LET bits == Trimmed(bits0)
        q == Len(bits) - Precision
    IN  IF q <= 0 THEN bits
        ELSE LET guard == bits[q]
                 below == sticky \/ \E i \in 1..(q - 1) : bits[i] = 1
                 kept == SubSeq(bits, q + 1, Len(bits))
                 up == guard = 1 /\ (below \/ kept[1] = 1)
             IN  Zeros(q) \o (IF up THEN BitsInc(kept) ELSE kept)

\* the quotient p / q of small naturals, 0 < p < q: [bits, exp, sticky] with p / q = bits * 2^-exp (+ less than one unit if sticky)
RECURSIVE DivideSteps(_, _, _, _)
DivideSteps(rem, q, bits, exp) ==
    IF Len(bits) = Precision + 2 THEN [bits |-> bits, exp |-> exp, sticky |-> rem # 0]
    ELSE LET bit == IF 2 * rem >= q THEN 1 ELSE 0
         IN  DivideSteps(2 * rem - bit * q, q,
                         IF bits = <<>> /\ bit = 0 THEN bits ELSE <<bit>> \o bits, exp + 1)

\* fl(p / q): [bits, exp], value bits * 2^-exp
FloatQuotient(p, q) ==
    LET d == DivideSteps(p, q, <<>>, 0)
    IN  [bits |-> RoundBits(d.bits, d.sticky), exp |-> d.exp]

RECURSIVE LimbsOf(_)
LimbsOf(bits) ==
    IF bits = <<>> THEN <<>>
    ELSE IF Len(bits) <= SmallBits THEN <<BitsValue(bits)>>
    ELSE <<BitsValue(SubSeq(bits, 1, SmallBits))>> \o LimbsOf(SubSeq(bits, SmallBits + 1, Len(bits)))

RECURSIVE SumProducts(_, _, _, _)
SumProducts(a, b, k, i) ==
    IF i > Len(a) THEN 0
    ELSE (IF k - i + 2 >= 1 /\ k - i + 2 <= Len(b) THEN a[i] * b[k - i + 2] ELSE 0)
         + SumProducts(a, b, k, i + 1)

\* bits of the product, column k (from 0) with the carry of the columns below
RECURSIVE ProductBits(_, _, _, _)
ProductBits(a, b, k, carry) ==
    IF k > Len(a) + Len(b) - 2
    THEN BitsOf(carry, 2 * SmallBits)
    ELSE LET column == SumProducts(a, b, k, 1) + carry
         IN  BitsOf(column % Small, SmallBits) \o ProductBits(a, b, k + 1, column \div Small)

BitsProduct(x1, x2) == ProductBits(LimbsOf(x1), LimbsOf(x2), 0, 0)

\* a float in units of 2^-UnitExp: sign and magnitude hi * Limb + lo
Zero == [neg |-> FALSE, hi |-> 0, lo |-> 0]

FromBits(bits, exp, neg) ==
    LET shifted == IF exp <= UnitExp THEN Zeros(UnitExp - exp) \o bits
                   ELSE SubSeq(bits, exp - UnitExp + 1, Len(bits))
        padded == shifted \o Zeros(2 * LimbBits)
    IN  [neg |-> neg, lo |-> BitsValue(SubSeq(padded, 1, LimbBits)),
         hi |-> BitsValue(SubSeq(padded, LimbBits + 1, 2 * LimbBits + 2))]

\* fl(fl(tenths / 10) * fl(1 / n))
FloatTerm(tenths, n) ==
    IF tenths = 0 THEN Zero
    ELSE LET w == FloatQuotient(IF tenths < 0 THEN -tenths ELSE tenths, 10)
             r == FloatQuotient(1, n)
             p == RoundBits(BitsProduct(w.bits, r.bits), FALSE)
         IN  FromBits(p, w.exp + r.exp, tenths < 0)

RECURSIVE ExcessBits(_)
ExcessBits(hi) == IF hi < 2^(Precision - LimbBits) THEN 0 ELSE 1 + ExcessBits(hi \div 2)

\* magnitude rounded to Precision significant bits, ties to even
RoundMagnitude(hi, lo) ==
    LET q == ExcessBits(hi)
    IN  IF q = 0 THEN [hi |-> hi, lo |-> lo]
        ELSE LET r == lo % 2^q
                 half == 2^(q - 1)
                 up == r > half \/ (r = half /\ (lo \div 2^q) % 2 = 1)
                 lo2 == lo - r + (IF up THEN 2^q ELSE 0)
             IN  IF lo2 >= Limb THEN [hi |-> hi + 1, lo |-> lo2 - Limb]
                 ELSE [hi |-> hi, lo |-> lo2]

MagLess(a, b) == a.hi < b.hi \/ (a.hi = b.hi /\ a.lo < b.lo)

MagAdd(a, b) ==
    LET lo == a.lo + b.lo
    IN  RoundMagnitude(a.hi + b.hi + lo \div Limb, lo % Limb)

\* a - b for magnitudes, a not less than b
MagSub(a, b) ==
    LET borrow == IF a.lo < b.lo THEN 1 ELSE 0
    IN  RoundMagnitude(a.hi - b.hi - borrow, a.lo - b.lo + borrow * Limb)

FloatAdd(a, b) ==
    IF a.neg = b.neg
    THEN LET m == MagAdd(a, b) IN [neg |-> a.neg, hi |-> m.hi, lo |-> m.lo]
    ELSE IF a.hi = b.hi /\ a.lo = b.lo THEN Zero
    ELSE IF MagLess(a, b)
         THEN LET m == MagSub(b, a) IN [neg |-> b.neg, hi |-> m.hi, lo |-> m.lo]
         ELSE LET m == MagSub(a, b) IN [neg |-> a.neg, hi |-> m.hi, lo |-> m.lo]

FloatLess(a, b) ==
    IF a.neg # b.neg THEN a.neg
    ELSE IF a.neg THEN MagLess(b, a) ELSE MagLess(a, b)

\* the longest ranked list: a generic one, a scenario's, or one of a search (top_k * 2)
MaxRank ==
    LET generic == IF MaxLen > 3 THEN MaxLen ELSE 3
    IN  IF 2 * MaxTopK > generic THEN 2 * MaxTopK ELSE generic

\* the k + rank + 1 that occur
TermDivisors == (K + 1)..(K + MaxRank + 1)

\* the weights that occur: those of the profiles, and the default 0 of weights.get
TermWeights == {0} \cup UNION {{p[f] : f \in DOMAIN p} : p \in WeightProfiles}

\* every weight * (1 / n), computed once
RrfTable == [w \in TermWeights |-> [n \in TermDivisors |-> FloatTerm(w, n)]]

\* the same with the rank taken 1-based twice over
RrfTermOffByOne(weight, k, rank) == RrfTable[weight][k + rank + 2]

\* weight * (1 / (k + rank + 1))
RrfTerm(weight, k, rank) == RrfTable[weight][k + rank + 1]

\* weights.get(key, 0)
WeightsGet(w, key) == IF key \in DOMAIN w THEN w[key] ELSE 0

\* scores.get(property_id, 0); scores is a dict, held as its items in insertion order
ScoresGet(scores, property_id) ==
    IF \E i \in 1..Len(scores) : scores[i].id = property_id
    THEN scores[CHOOSE i \in 1..Len(scores) : scores[i].id = property_id].score
    ELSE Zero

\* scores[property_id] = value: a new key goes last, an old key keeps its place
ScoresSet(scores, property_id, value) ==
    IF \E i \in 1..Len(scores) : scores[i].id = property_id
    THEN [i \in 1..Len(scores) |->
            IF scores[i].id = property_id THEN [id |-> property_id, score |-> value] ELSE scores[i]]
    ELSE Append(scores, [id |-> property_id, score |-> value])

\* for rank, result in enumerate(results): ...
RECURSIVE AccumulateResults(_, _, _, _, _)
AccumulateResults(scores, results, weight, k, rank) ==
    IF rank >= Len(results) THEN scores
    ELSE LET property_id == results[rank + 1]
         IN  AccumulateResults(
                 ScoresSet(scores, property_id,
                           FloatAdd(ScoresGet(scores, property_id), RrfTerm(weight, k, rank))),
                 results, weight, k, rank + 1)

\* for key, results in search_results.items(): ...
RECURSIVE AccumulateFacets(_, _, _, _, _)
AccumulateFacets(scores, sr, w, k, i) ==
    IF i > Len(sr) THEN scores
    ELSE AccumulateFacets(
             AccumulateResults(scores, sr[i].results, WeightsGet(w, sr[i].key), k, 0),
             sr, w, k, i + 1)

\* an unstable variant: item goes before the items of equal score
InsertByScoreUnstable(out, item) ==
    LET p == Cardinality({j \in 1..Len(out) : FloatLess(item.score, out[j].score)})
    IN  SubSeq(out, 1, p) \o <<item>> \o SubSeq(out, p + 1, Len(out))

\* the sort without reverse=True: ascending
InsertByScoreAsc(out, item) ==
    LET p == Cardinality({j \in 1..Len(out) : ~FloatLess(item.score, out[j].score)})
    IN  SubSeq(out, 1, p) \o <<item>> \o SubSeq(out, p + 1, Len(out))

\* one step of the stable descending sort: item goes after every item whose score is not lower
InsertByScoreDesc(out, item) ==
    LET p == Cardinality({j \in 1..Len(out) : ~FloatLess(out[j].score, item.score)})
    IN  SubSeq(out, 1, p) \o <<item>> \o SubSeq(out, p + 1, Len(out))

\* sorted(scores.items(), key=lambda x: x[1], reverse=True)
RECURSIVE SortedByScoreDesc(_, _)
SortedByScoreDesc(items, out) ==
    IF items = <<>> THEN out
    ELSE SortedByScoreDesc(Tail(items), InsertByScoreDesc(out, Head(items)))

weighted_rrf_merge(sr, w, k) ==
    SortedByScoreDesc(AccumulateFacets(<<>>, sr, w, k, 1), <<>>)

(***************************************************************************)
(* The fusion specification: one call of _weighted_rrf_merge.              *)
(***************************************************************************)
InitFusion ==
    /\ search_results \in FusionInputs
    /\ weights \in WeightProfiles
    /\ merged = <<>>
    /\ outcome = "pending"
    /\ properties = <<>>
    /\ filters = None
    /\ filtered_results = <<>>
    /\ filter_outcome = "idle"
    /\ client = <<>>
    /\ self_search_modes = search_modes
    /\ calls = <<>>
    /\ indexing = <<>>
    /\ setup = <<>>

\* the call; the code has no statement that raises on these inputs
WeightedRrfMerge ==
    /\ outcome = "pending"
    /\ merged' = weighted_rrf_merge(search_results, weights, K)
    /\ outcome' = "returned"
    /\ UNCHANGED <<search_results, weights>>
    /\ UNCHANGED filter_vars
    /\ UNCHANGED search_vars

NextFusion == WeightedRrfMerge

SpecFusion == InitFusion /\ [][NextFusion]_vars

(***************************************************************************)
(* Vocabulary of the fusion claims, computed from the inputs alone.        *)
(***************************************************************************)
Listed(id, results) == \E r \in 1..Len(results) : results[r] = id

\* 0-based position of a listed id
RankOf(id, results) == (CHOOSE r \in 1..Len(results) : results[r] = id) - 1

ListedIds(sr) == UNION {{sr[i].results[r] : r \in 1..Len(sr[i].results)} : i \in 1..Len(sr)}

\* Exact arithmetic for the real-number sums: an integer hi * Limb + lo of units of
\* 2^-UnitExp, lo in 0..Limb-1, hi of either sign.
WideAdd(a, b) ==
    [hi |-> a.hi + b.hi + (a.lo + b.lo) \div Limb, lo |-> (a.lo + b.lo) % Limb]

WideNeg(a) ==
    IF a.lo = 0 THEN [hi |-> -a.hi, lo |-> 0] ELSE [hi |-> -a.hi - 1, lo |-> Limb - a.lo]

WideZero == [hi |-> 0, lo |-> 0]

\* the integer a float stands for
WideOf(x) == IF x.neg THEN WideNeg([hi |-> x.hi, lo |-> x.lo]) ELSE [hi |-> x.hi, lo |-> x.lo]

\* p * 2^bits divided by d: quotient and remainder
ShiftDivide(p, d, bits) == [q |-> (p * 2^bits) \div d, r |-> (p * 2^bits) % d]

\* the whole units in p / d, 0 <= p < d: long division in three steps of 20, 21 and 21
\* bits (UnitExp in all), the quotient a.q * 2^42 + b.q * 2^21 + c.q split at LimbBits
WholeUnits(p, d) ==
    LET a == ShiftDivide(p, d, 20)
        b == ShiftDivide(a.r, d, 21)
        c == ShiftDivide(b.r, d, 21)
    IN  [hi |-> a.q * 2^14 + b.q \div 2^7, lo |-> (b.q % 2^7) * 2^21 + c.q]

\* w / (10 * n) for the weight w in tenths, less a fraction of a unit
RealTermTable ==
    [w \in TermWeights |-> [n \in TermDivisors |->
        IF w < 0 THEN WideNeg(WholeUnits(-w, 10 * n)) ELSE WholeUnits(w, 10 * n)]]

\* sum over the facets that list id of w_f / (k + rank + 1), less a few fractions of a unit
RECURSIVE ReciprocalRankSum(_, _, _, _, _)
ReciprocalRankSum(id, sr, w, k, i) ==
    IF i > Len(sr) THEN WideZero
    ELSE WideAdd(IF Listed(id, sr[i].results)
                 THEN RealTermTable[WeightsGet(w, sr[i].key)][k + RankOf(id, sr[i].results) + 1]
                 ELSE WideZero,
                 ReciprocalRankSum(id, sr, w, k, i + 1))

\* a float equals a real sum up to the rounding of the float operations: within 2^-54
EqualsUpToRounding(x, sum) ==
    LET d == WideAdd(WideOf(x), WideNeg(sum))
        tolerance == 2^(UnitExp - 54)
    IN  \/ d.hi = 0 /\ d.lo <= tolerance
        \/ d.hi = -1 /\ d.lo >= Limb - tolerance

IdsOf(ranking) == [i \in 1..Len(ranking) |-> ranking[i].id]

\* the ids in the order a walk over the facets, each in rank order, meets them
RECURSIVE WalkOrder(_, _)
WalkOrder(sr, i) ==
    IF i > Len(sr) THEN <<>> ELSE sr[i].results \o WalkOrder(sr, i + 1)

FirstAppearance(id, sr) ==
    LET walk == WalkOrder(sr, 1)
    IN  CHOOSE p \in 1..Len(walk) :
            walk[p] = id /\ \A q \in 1..(p - 1) : walk[q] # id

\* sr without its i-th entry
WithoutEntry(sr, i) == SubSeq(sr, 1, i - 1) \o SubSeq(sr, i + 1, Len(sr))

AllWeightsPositive(sr, w) ==
    /\ \A f \in DOMAIN w : w[f] > 0
    /\ \A i \in 1..Len(sr) : sr[i].key \in DOMAIN w

TopOfEveryFacet(id, sr) ==
    /\ Len(sr) >= 1
    /\ \A i \in 1..Len(sr) : Len(sr[i].results) >= 1 /\ sr[i].results[1] = id

(***************************************************************************)
(* Claims about _weighted_rrf_merge, checked under SpecFusion.             *)
(***************************************************************************)

\* C1: the fused ranking holds exactly the ids some facet lists, each once, and the score of
\* each is, up to floating-point rounding, the sum over the facets listing it of
\* w_f / (k + rank + 1), rank 0-based; on the rotation scenario with the balanced weights
\* A scores 0.4/61 + 0.4/63 + 0.2/62 and the order is B, A, C.
C1_FusedScoreIsReciprocalRankSum ==
    outcome = "returned" =>
        /\ {merged[i].id : i \in 1..Len(merged)} = ListedIds(search_results)
        /\ Len(merged) = Cardinality(ListedIds(search_results))
        /\ \A i \in 1..Len(merged) :
               EqualsUpToRounding(merged[i].score,
                       ReciprocalRankSum(merged[i].id, search_results, weights, K, 1))
        /\ (search_results = ScenarioResults /\ weights = search_modes.balanced) =>
               /\ IdsOf(merged) = <<"B", "A", "C">>
               /\ EqualsUpToRounding(merged[2].score,
                      WideAdd(RealTermTable[4][61],
                              WideAdd(RealTermTable[4][63], RealTermTable[2][62])))

C1_Witness ==
    /\ outcome = "returned"
    /\ search_results = ScenarioResults
    /\ weights = search_modes.balanced
    /\ IdsOf(merged) = <<"B", "A", "C">>

\* C2: the fused ranking is ordered by score, highest first, and ids of equal score stand in
\* the order of their first appearance in the walk over the facets.
C2_DescendingAndTiesByFirstAppearance ==
    outcome = "returned" =>
        \A i, j \in 1..Len(merged) :
            i < j =>
                \/ FloatLess(merged[j].score, merged[i].score)
                \/ /\ merged[i].score = merged[j].score
                   /\ FirstAppearance(merged[i].id, search_results)
                          < FirstAppearance(merged[j].id, search_results)

C2_Witness ==
    /\ outcome = "returned"
    /\ \E i, j \in 1..Len(merged) :
           /\ i < j
           /\ merged[i].score = merged[j].score
           /\ FloatLess(Zero, merged[i].score)
           /\ \E m \in 1..Len(merged) : merged[m].score # merged[i].score

\* C3: a facet of weight 0 is inert: the fused order with its list present is the fused
\* order with its entry removed from the map.
C3_ZeroWeightFacetIsInert ==
    (outcome = "returned" /\ \A f \in DOMAIN weights : weights[f] >= 0) =>
        \A i \in 1..Len(search_results) :
            WeightsGet(weights, search_results[i].key) = 0 =>
                IdsOf(merged)
                    = IdsOf(weighted_rrf_merge(WithoutEntry(search_results, i), weights, K))

\* C4: a profile with a negative weight is rejected with InvalidWeight and yields no ranking.
C4_NegativeWeightRejected ==
    (outcome # "pending" /\ \E f \in DOMAIN weights : weights[f] < 0) =>
        /\ outcome = "InvalidWeight"
        /\ merged = <<>>

\* C5: with all weights positive, an id at rank 0 of every facet's list is first in the fused
\* ranking and every other id has a strictly lower fused score.
C5_TopOfEveryFacetIsFirst ==
    (outcome = "returned" /\ AllWeightsPositive(search_results, weights)) =>
        \A id \in ListedIds(search_results) :
            TopOfEveryFacet(id, search_results) =>
                /\ merged[1].id = id
                /\ \A j \in 2..Len(merged) : FloatLess(merged[j].score, merged[1].score)

C5_Witness ==
    /\ outcome = "returned"
    /\ AllWeightsPositive(search_results, weights)
    /\ Len(search_results) = Len(Facets)
    /\ Len(merged) >= 2
    /\ TopOfEveryFacet(merged[1].id, search_results)

(***************************************************************************)
(* apply_filters: the data.                                                *)
(*                                                                         *)
(* A text is the sequence of its characters.  A record (prop) is a dict: a *)
(* function whose domain is the set of keys it has.  Prices and counts are *)
(* small integers.                                                         *)
(***************************************************************************)
Digits == <<"0", "1", "2", "3", "4", "5", "6", "7", "8", "9">>

DigitSet == {Digits[i] : i \in 1..Len(Digits)}

\* the text "lo-hi" of a price range
RangeText(lo, hi) == <<Digits[lo + 1], "-", Digits[hi + 1]>>

\* amenity names and listing descriptions
Pool == <<"a", "b">>

Gym == <<"c">>

\* how a record gives its price: price_range and list_price, each absent, None or a value
PriceShapes ==
    {[has_range |-> FALSE, range |-> None, has_list |-> FALSE, list |-> None],
     [has_range |-> TRUE,  range |-> None, has_list |-> TRUE,  list |-> None],
     [has_range |-> TRUE,  range |-> None, has_list |-> TRUE,  list |-> Some(3)],
     [has_range |-> TRUE,  range |-> Some(RangeText(2, 3)), has_list |-> TRUE, list |-> Some(1)]}
    \cup {[has_range |-> FALSE, range |-> None, has_list |-> TRUE, list |-> Some(p)] :
              p \in {0, 1, 3, 4}}
    \cup {[has_range |-> TRUE, range |-> Some(t), has_list |-> FALSE, list |-> None] :
              t \in {RangeText(1, 1), RangeText(2, 3), RangeText(4, 4),
                     <<"x", "-", "3">>, <<"2", "-", "3", "-", "4">>, <<"2">>}}

\* lp_listing_description: absent, None or a text
DescriptionShapes ==
    {[has |-> FALSE, text |-> None],
     [has |-> TRUE,  text |-> None],
     [has |-> TRUE,  text |-> Some(<<"x", "a", "b">>)],
     [has |-> TRUE,  text |-> Some(<<"a", "b", " ", "c">>)]}

PropKeys(price, desc) ==
    {"bedrooms_total", "lp_calculated_bath", "property_type", "amenities"}
        \cup (IF price.has_range THEN {"price_range"} ELSE {})
        \cup (IF price.has_list THEN {"list_price"} ELSE {})
        \cup (IF desc.has THEN {"lp_listing_description"} ELSE {})

\* the record dict with these contents
Prop(price, bedrooms, bathrooms, type, desc, amenities) ==
    [key \in PropKeys(price, desc) |->
        CASE key = "price_range" -> price.range
          [] key = "list_price" -> price.list
          [] key = "bedrooms_total" -> bedrooms
          [] key = "lp_calculated_bath" -> bathrooms
          [] key = "property_type" -> type
          [] key = "lp_listing_description" -> desc.text
          [] key = "amenities" -> amenities]

Records ==
    {Prop(price, bedrooms, bathrooms, type, desc, amenities) :
        price \in PriceShapes,
        bedrooms \in {None, Some(1), Some(2), Some(4)},
        bathrooms \in {None, Some(1), Some(2), Some(3)},
        type \in {Some("house"), Some("condo")},
        desc \in DescriptionShapes,
        amenities \in {{}, {Pool, Gym}}}

\* PropertyFilters
FilterSpecs ==
    [min_price : {None, Some(2)},
     max_price : {None, Some(3)},
     min_bedrooms : {None, Some(2)},
     max_bedrooms : {None, Some(3)},
     min_bathrooms : {None, Some(2)},
     max_bathrooms : {None, Some(2)},
     property_type : {None, Some("house")},
     must_have_amenities : {<<>>, <<Pool>>, <<Pool, Gym>>}]

\* PropertyFilters(): every field at its default
NoConstraint ==
    [min_price |-> None, max_price |-> None, min_bedrooms |-> None, max_bedrooms |-> None,
     min_bathrooms |-> None, max_bathrooms |-> None, property_type |-> None,
     must_have_amenities |-> <<>>]

PlainShape == [has |-> FALSE, text |-> None]

RangePriced(lo, hi) ==
    [has_range |-> TRUE, range |-> Some(RangeText(lo, hi)), has_list |-> FALSE, list |-> None]

SinglePriced(p) == [has_range |-> FALSE, range |-> None, has_list |-> TRUE, list |-> Some(p)]

\* the records the longer lists are made of
SampleRecords ==
    {Prop(RangePriced(2, 3), Some(2), Some(2), Some("house"), PlainShape, {}),
     Prop(RangePriced(1, 1), Some(2), Some(2), Some("house"), PlainShape, {}),
     Prop(SinglePriced(3), Some(2), Some(2), Some("condo"), PlainShape, {}),
     Prop(RangePriced(4, 4), None, Some(2), Some("house"), PlainShape, {}),
     Prop([has_range |-> TRUE, range |-> Some(<<"x", "-", "3">>), has_list |-> FALSE,
           list |-> None], Some(2), Some(2), Some("house"), PlainShape, {})}

SampleFilters ==
    {None,
     Some(NoConstraint),
     Some([NoConstraint EXCEPT !.min_price = Some(2)]),
     Some([NoConstraint EXCEPT !.min_price = Some(2), !.max_price = Some(3),
                               !.max_bedrooms = Some(3)])}

\* the bedroom scenario: counts 1, 2, 3, 4 and None on records that pass every other step
BedroomRecord(bedrooms) ==
    Prop(RangePriced(2, 3), bedrooms, Some(2), Some("house"), PlainShape, {})

ScenarioRecords ==
    <<BedroomRecord(Some(1)), BedroomRecord(Some(2)), BedroomRecord(Some(3)),
      BedroomRecord(Some(4)), BedroomRecord(None)>>

ScenarioFilters ==
    Some([NoConstraint EXCEPT !.min_bedrooms = Some(2), !.max_bedrooms = Some(3)])

(***************************************************************************)
(* apply_filters: the code.                                                *)
(***************************************************************************)
\* prop.get(key, default)
PropGet(prop, key, default) == IF key \in DOMAIN prop THEN prop[key] ELSE default

\* the truth value of an optional text: None and "" are false
TruthyText(v) == v # None /\ v[1] # <<>>

\* the truth value of an optional number: None and 0 are false
TruthyNumber(v) == v # None /\ v[1] # 0

\* text.split(sep): the pieces between the separators
RECURSIVE SplitFrom(_, _, _, _)
SplitFrom(text, sep, piece, pieces) ==
    IF text = <<>> THEN Append(pieces, piece)
    ELSE IF Head(text) = sep
         THEN SplitFrom(Tail(text), sep, <<>>, Append(pieces, piece))
         ELSE SplitFrom(Tail(text), sep, Append(piece, Head(text)), pieces)

Split(text, sep) == SplitFrom(text, sep, <<>>, <<>>)

RECURSIVE DigitsValue(_, _)
DigitsValue(text, acc) ==
    IF text = <<>> THEN acc
    ELSE DigitsValue(Tail(text),
                     10 * acc + (CHOOSE d \in 1..Len(Digits) : Digits[d] = Head(text)) - 1)

\* float(text) on texts of digits and other characters: None stands for ValueError
ParseFloat(text) ==
    IF text # <<>> /\ \A i \in 1..Len(text) : text[i] \in DigitSet
    THEN Some(DigitsValue(text, 0))
    ELSE None

\* amenity in description, on texts: description has amenity as a substring
Contains(description, amenity) ==
    \E start \in 0..(Len(description) - Len(amenity)) :
        \A i \in 1..Len(amenity) : description[start + i] = amenity[i]

\* the price step: "pass", "skip" (continue) or "raise" (an exception, caught by the loop)
PriceStep(prop, f) ==
    IF "price_range" \in DOMAIN prop /\ TruthyText(PropGet(prop, "price_range", None))
    THEN LET pieces == Split(prop["price_range"][1], "-")
             numbers == [i \in 1..Len(pieces) |-> ParseFloat(pieces[i])]
         IN  IF Len(pieces) # 2 \/ \E i \in 1..Len(pieces) : numbers[i] = None
             THEN "raise"
             ELSE LET price_min == numbers[1][1]
                      price_max == numbers[2][1]
                  IN  IF f.min_price # None /\ price_max < f.min_price[1] THEN "skip"
                      ELSE IF f.max_price # None /\ price_min > f.max_price[1] THEN "skip"
                      ELSE "pass"
    ELSE IF "list_price" \in DOMAIN prop /\ TruthyNumber(PropGet(prop, "list_price", None))
    THEN LET list_price == prop["list_price"][1]
         IN  IF f.min_price = None THEN "raise"
             ELSE IF f.min_price[1] > list_price THEN "skip"
             ELSE IF f.max_price = None THEN "raise"
             ELSE IF f.max_price[1] < list_price THEN "skip"
             ELSE "pass"
    ELSE "skip"

\* the bedroom step with the lower bound exclusive
BedroomStepExclusive(prop, f) ==
    LET bedrooms == PropGet(prop, "bedrooms_total", None)
    IN  IF bedrooms # None
        THEN IF f.min_bedrooms # None /\ bedrooms[1] <= f.min_bedrooms[1] THEN "skip"
             ELSE IF f.max_bedrooms # None /\ bedrooms[1] > f.max_bedrooms[1] THEN "skip"
             ELSE "pass"
        ELSE "skip"

BedroomStep(prop, f) ==
    LET bedrooms == PropGet(prop, "bedrooms_total", None)
    IN  IF bedrooms # None
        THEN IF f.min_bedrooms # None /\ bedrooms[1] < f.min_bedrooms[1] THEN "skip"
             ELSE IF f.max_bedrooms # None /\ bedrooms[1] > f.max_bedrooms[1] THEN "skip"
             ELSE "pass"
        ELSE "skip"

BathroomStep(prop, f) ==
    LET bathrooms == PropGet(prop, "lp_calculated_bath", None)
    IN  IF bathrooms # None
        THEN IF f.min_bathrooms # None /\ bathrooms[1] < f.min_bathrooms[1] THEN "skip"
             ELSE IF f.max_bathrooms # None /\ bathrooms[1] > f.max_bathrooms[1] THEN "skip"
             ELSE "pass"
        ELSE "skip"

PropertyTypeStep(prop, f) ==
    IF f.property_type # None /\ PropGet(prop, "property_type", None) # f.property_type
    THEN "skip"
    ELSE "pass"

\* the amenity step: each required amenity must occur in the listing description, whose
\* default is the empty text; a description of None makes the test raise
AmenityStep(prop, f) ==
    IF f.must_have_amenities # <<>>
    THEN IF "lp_listing_description" \in DOMAIN prop
         THEN IF prop["lp_listing_description"] = None THEN "raise"
              ELSE IF \A a \in 1..Len(f.must_have_amenities) :
                          Contains(prop["lp_listing_description"][1], f.must_have_amenities[a])
                   THEN "pass"
                   ELSE "skip"
         ELSE IF \A a \in 1..Len(f.must_have_amenities) :
                     Contains(<<>>, f.must_have_amenities[a])
              THEN "pass"
              ELSE "skip"
    ELSE "pass"

\* the body of the loop for one record: "keep" (appended), "skip" or "raise" (logged, skipped)
EvalRecord(prop, f) ==
    IF PriceStep(prop, f) # "pass" THEN PriceStep(prop, f)
    ELSE IF BedroomStep(prop, f) # "pass" THEN BedroomStep(prop, f)
    ELSE IF BathroomStep(prop, f) # "pass" THEN BathroomStep(prop, f)
    ELSE IF PropertyTypeStep(prop, f) # "pass" THEN PropertyTypeStep(prop, f)
    ELSE IF AmenityStep(prop, f) # "pass" THEN AmenityStep(prop, f)
    ELSE "keep"

\* the loop with the kept record put first instead of last
RECURSIVE FilterLoopPrepending(_, _, _, _)
FilterLoopPrepending(props, f, i, kept) ==
    IF i > Len(props) THEN kept
    ELSE FilterLoopPrepending(props, f, i + 1,
                    IF EvalRecord(props[i], f) = "keep" THEN <<props[i]>> \o kept ELSE kept)

\* the loop with the try around it instead of inside it: the first exception ends the loop
RECURSIVE FilterLoopAborting(_, _, _, _)
FilterLoopAborting(props, f, i, kept) ==
    IF i > Len(props) \/ EvalRecord(props[i], f) = "raise" THEN kept
    ELSE FilterLoopAborting(props, f, i + 1,
                    IF EvalRecord(props[i], f) = "keep" THEN Append(kept, props[i]) ELSE kept)

\* for prop in properties: ... filtered_results.append(prop)
RECURSIVE FilterLoop(_, _, _, _)
FilterLoop(props, f, i, kept) ==
    IF i > Len(props) THEN kept
    ELSE FilterLoop(props, f, i + 1,
                    IF EvalRecord(props[i], f) = "keep" THEN Append(kept, props[i]) ELSE kept)

\* the call with the loop starting at the second record
apply_filters_from_second(props, fs) ==
    IF fs = None THEN props ELSE FilterLoop(props, fs[1], 2, <<>>)

apply_filters(props, fs) ==
    IF fs = None THEN props ELSE FilterLoop(props, fs[1], 1, <<>>)

(***************************************************************************)
(* The filter specification: one call of apply_filters.                    *)
(***************************************************************************)
RecordLists == UNION {[1..n -> SampleRecords] : n \in 0..MaxRecs}

InitFilter ==
    /\ \/ /\ properties \in {<<r>> : r \in Records}
          /\ filters \in {None} \cup {Some(f) : f \in FilterSpecs}
       \/ /\ properties \in RecordLists
          /\ filters \in SampleFilters
       \/ /\ properties = ScenarioRecords
          /\ filters = ScenarioFilters
    /\ filtered_results = <<>>
    /\ filter_outcome = "pending"
    /\ search_results = <<>>
    /\ weights = search_modes.balanced
    /\ merged = <<>>
    /\ outcome = "idle"
    /\ client = <<>>
    /\ self_search_modes = search_modes
    /\ calls = <<>>
    /\ indexing = <<>>
    /\ setup = <<>>

\* the call; every exception of the loop body is caught inside the loop
ApplyFilters ==
    /\ filter_outcome = "pending"
    /\ filtered_results' = apply_filters(properties, filters)
    /\ filter_outcome' = "returned"
    /\ UNCHANGED <<properties, filters>>
    /\ UNCHANGED fusion_vars
    /\ UNCHANGED search_vars

NextFilter == ApplyFilters

SpecFilter == InitFilter /\ [][NextFilter]_vars

(***************************************************************************)
(* Vocabulary of the filter claims.                                        *)
(***************************************************************************)
\* a is b with some elements left out
RECURSIVE IsSubsequence(_, _)
IsSubsequence(a, b) ==
    IF a = <<>> THEN TRUE
    ELSE IF b = <<>> THEN FALSE
    ELSE IF Head(a) = Head(b) THEN IsSubsequence(Tail(a), Tail(b))
    ELSE IsSubsequence(a, Tail(b))

\* the price a record exposes: a range lo-hi, a single price (lo = hi), none, or a
\* price_range text that is no range
ExposedPrice(prop) ==
    IF "price_range" \in DOMAIN prop /\ prop["price_range"] # None /\ prop["price_range"][1] # <<>>
    THEN IF \E lo, hi \in 0..9 : prop["price_range"][1] = RangeText(lo, hi)
         THEN LET b == CHOOSE b \in (0..9) \X (0..9) : prop["price_range"][1] = RangeText(b[1], b[2])
              IN  [kind |-> "range", lo |-> b[1], hi |-> b[2]]
         ELSE [kind |-> "malformed", lo |-> 0, hi |-> 0]
    ELSE IF "list_price" \in DOMAIN prop /\ prop["list_price"] # None /\ prop["list_price"][1] # 0
    THEN [kind |-> "single", lo |-> prop["list_price"][1], hi |-> prop["list_price"][1]]
    ELSE [kind |-> "none", lo |-> 0, hi |-> 0]

\* the price rule of the specification
PriceAdmits(prop, f) ==
    LET price == ExposedPrice(prop)
    IN  /\ price.kind \in {"range", "single"}
        /\ ~(f.min_price # None /\ price.hi < f.min_price[1])
        /\ ~(f.max_price # None /\ price.lo > f.max_price[1])

\* the count rule of the specification: present, and within the bounds that are set
CountAdmits(count, lo, hi) ==
    /\ count # None
    /\ (lo = None \/ count[1] >= lo[1])
    /\ (hi = None \/ count[1] <= hi[1])

(***************************************************************************)
(* Claims about apply_filters, checked under SpecFilter.                   *)
(***************************************************************************)

\* C6: the output of apply_filters is a subsequence of its input: input records, unaltered,
\* in their input order.
C6_OutputIsSubsequence ==
    filter_outcome = "returned" => IsSubsequence(filtered_results, properties)

C6_Witness ==
    /\ filter_outcome = "returned"
    /\ filters # None
    /\ Len(properties) >= 3
    /\ Len(filtered_results) = 2
    /\ filtered_results[1] # filtered_results[2]
    /\ properties[1] # filtered_results[1]

\* C7: filtering the output again with the same filters gives the output back.
C7_FilteringIsIdempotent ==
    filter_outcome = "returned" =>
        apply_filters(filtered_results, filters) = filtered_results

C7_Witness ==
    /\ filter_outcome = "returned"
    /\ filters # None
    /\ Len(filtered_results) >= 2
    /\ Len(filtered_results) < Len(properties)

\* C8: among records that pass every other step, exactly those are kept that expose a price
\* (a single price or a range) which no set price bound excludes; an unset bound excludes
\* nothing and a record with no price is excluded.
C8_PriceStepFollowsSetBounds ==
    (/\ filter_outcome = "returned"
     /\ filters # None
     /\ \A i \in 1..Len(properties) : ExposedPrice(properties[i]).kind # "malformed") =>
        LET f == filters[1]
            Expected(prop) ==
                /\ PriceAdmits(prop, f)
                /\ BedroomStep(prop, f) = "pass"
                /\ BathroomStep(prop, f) = "pass"
                /\ PropertyTypeStep(prop, f) = "pass"
                /\ AmenityStep(prop, f) = "pass"
        IN  filtered_results = SelectSeq(properties, Expected)

\* C9: among records that pass the other steps, exactly those are kept whose bedroom count
\* and bathroom count are present and within the bounds that are set; with min_bedrooms 2,
\* max_bedrooms 3 and counts 1, 2, 3, 4, None the records with 2 and 3 are kept.
C9_CountStepsFollowBounds ==
    (filter_outcome = "returned" /\ filters # None) =>
        LET f == filters[1]
            Expected(prop) ==
                /\ PriceStep(prop, f) = "pass"
                /\ CountAdmits(PropGet(prop, "bedrooms_total", None),
                               f.min_bedrooms, f.max_bedrooms)
                /\ CountAdmits(PropGet(prop, "lp_calculated_bath", None),
                               f.min_bathrooms, f.max_bathrooms)
                /\ PropertyTypeStep(prop, f) = "pass"
                /\ AmenityStep(prop, f) = "pass"
        IN  /\ filtered_results = SelectSeq(properties, Expected)
            /\ (properties = ScenarioRecords /\ filters = ScenarioFilters) =>
                   filtered_results = <<BedroomRecord(Some(2)), BedroomRecord(Some(3))>>

C9_Witness ==
    /\ filter_outcome = "returned"
    /\ properties = ScenarioRecords
    /\ filters = ScenarioFilters
    /\ filtered_results = <<BedroomRecord(Some(2)), BedroomRecord(Some(3))>>

\* C10: when amenities are required, every kept record has each of them in its amenity
\* collection.
C10_KeptRecordsHaveRequiredAmenities ==
    (filter_outcome = "returned" /\ filters # None) =>
        \A i \in 1..Len(filtered_results) :
            \A a \in 1..Len(filters[1].must_have_amenities) :
                filters[1].must_have_amenities[a] \in filtered_results[i]["amenities"]

\* a record whose access raises whatever the other fields hold: a price_range text that is
\* no range, or a description of None when amenities are required
Malformed(prop, fs) ==
    \/ ExposedPrice(prop).kind = "malformed"
    \/ /\ fs # None
       /\ fs[1].must_have_amenities # <<>>
       /\ "lp_listing_description" \in DOMAIN prop
       /\ prop["lp_listing_description"] = None

\* the list without its malformed records
WellFormedOnly(props, fs) == SelectSeq(props, LAMBDA prop : ~Malformed(prop, fs))

\* C11 as stated: apply_filters returns normally, no malformed record is in its output, and
\* the other records are kept or excluded as if the malformed ones were not in the list.
C11_MalformedRecordExcluded ==
    filter_outcome # "pending" =>
        /\ filter_outcome = "returned"
        /\ \A i \in 1..Len(filtered_results) : ~Malformed(filtered_results[i], filters)
        /\ filtered_results = apply_filters(WellFormedOnly(properties, filters), filters)

\* C11 amended: when a filter specification is given, apply_filters returns normally, no
\* malformed record is in its output, and the other records are kept or excluded as if the
\* malformed ones were not in the list; with no filter specification the input list is
\* returned as it is, malformed records included.
C11_MalformedRecordExcludedWhenFiltering ==
    filter_outcome # "pending" =>
        /\ filter_outcome = "returned"
        /\ filters # None =>
               /\ \A i \in 1..Len(filtered_results) : ~Malformed(filtered_results[i], filters)
               /\ filtered_results = apply_filters(WellFormedOnly(properties, filters), filters)
        /\ filters = None => filtered_results = properties

C11_Witness ==
    /\ filter_outcome = "returned"
    /\ filters # None
    /\ \E i, j \in 1..Len(properties) :
           /\ i < j
           /\ Malformed(properties[i], filters)
           /\ filtered_results = <<properties[j]>>

(***************************************************************************)
(* search_similar_properties: input domains.                               *)
(***************************************************************************)
\* the ids of the points of the store
StoreIds == {"A", "B", "C", "D", "E", "F"}

Calls == 1..NumCalls

\* mode.value of the argument mode: a key of the table, or the value of some other object
ModeValues == DOMAIN search_modes \cup {"unknown"}

\* the payload stored under an id: the record, with the id in it
WithId(prop, id) ==
    [key \in DOMAIN prop \cup {"id"} |-> IF key = "id" THEN Some(id) ELSE prop[key]]

GoodRecord == Prop(RangePriced(2, 3), Some(2), Some(2), Some("house"), PlainShape, {})

CostlyRecord == Prop(RangePriced(4, 4), Some(2), Some(2), Some("house"), PlainShape, {})

MalformedRecord ==
    Prop([has_range |-> TRUE, range |-> Some(<<"x", "-", "3">>), has_list |-> FALSE,
          list |-> None], Some(2), Some(2), Some("house"), PlainShape, {})

\* what retrieve gives for an id: no point, a point with no payload, a point with a payload
NoPoint == [point |-> FALSE, payload |-> None]

EmptyPayload == [point |-> TRUE, payload |-> None]

Payload(prop, id) == [point |-> TRUE, payload |-> Some(WithId(prop, id))]

PayloadMaps ==
    {[id \in StoreIds |-> Payload(GoodRecord, id)],
     [id \in StoreIds |->
        CASE id = "A" -> Payload(GoodRecord, id)
          [] id = "B" -> NoPoint
          [] id = "C" -> EmptyPayload
          [] id = "D" -> Payload(CostlyRecord, id)
          [] id = "E" -> Payload(MalformedRecord, id)
          [] id = "F" -> Payload(GoodRecord, id)]}

\* whether an id has a vector in a collection: "vector", "no_point" or "no_vector"
AllIndexed == [id \in StoreIds |-> [f \in FacetSet |-> "vector"]]

\* B in no collection
WithoutB == [AllIndexed EXCEPT !["B"] = [f \in FacetSet |-> "no_point"]]

VectorMaps ==
    {AllIndexed, WithoutB}
        \cup {[AllIndexed EXCEPT !["B"][f] = kind] : f \in FacetSet, kind \in {"no_point", "no_vector"}}

\* the neighbours of a vector, nearest first, as the three collections hold them
Neighbours(location, features, visual) ==
    [f \in FacetSet |-> CASE f = "location" -> location
                          [] f = "features" -> features
                          [] f = "visual" -> visual]

\* every list disjoint from the others
DisjointNeighbours == Neighbours(<<"A", "B">>, <<"C", "D">>, <<"E", "F">>)

RotationNeighbours ==
    Neighbours(<<"A", "B", "C">>, <<"B", "C", "A">>, <<"C", "A", "B">>)

\* the point itself nearest in every collection
SelfFirstNeighbours(id) ==
    LET others == CHOOSE l \in [1..3 -> StoreIds \ {id}] :
                      \A i \in 1..2 : \A j \in (i + 1)..3 : l[i] # l[j]
    IN  Neighbours(<<id>> \o others, <<id, others[2], others[1], others[3]>>,
                   <<id, others[3]>>)

NoNeighbours == Neighbours(<<>>, <<>>, <<>>)

RotationForA == [id \in StoreIds |-> IF id = "A" THEN RotationNeighbours ELSE DisjointNeighbours]

NeighbourMaps ==
    {[id \in StoreIds |-> DisjointNeighbours],
     RotationForA,
     [id \in StoreIds |-> SelfFirstNeighbours(id)],
     [id \in StoreIds |-> IF id = "A" THEN NoNeighbours ELSE SelfFirstNeighbours(id)]}

\* the calls of the store that fail: retrieve of a vector, search, and retrieve of a payload
FailingCalls ==
    {{}} \cup {{<<op, f>>} : op \in {"retrieve", "search"}, f \in FacetSet}
         \cup {{<<"payload", id>>} : id \in {"A", "D"}}

\* the store with this content and all three collections: a point that is not in
\* location_vectors has no payload there.  neighbours[q][f] is the order in which the
\* collection f ranks the ids by the vector of q, of which a search gives back those that
\* have a vector in f when it is made
MakeStore(vectors, neighbours, payloads, failing) ==
    LET held == [id \in StoreIds |-> [f \in FacetSet |->
                    IF f = "location" /\ ~payloads[id].point THEN "no_point"
                    ELSE vectors[id][f]]]
    IN  [collections |-> FacetSet,
         vectors |-> held,
         payloads |-> [id \in StoreIds |->
                          IF held[id]["location"] = "no_point" THEN NoPoint ELSE payloads[id]],
         neighbours |-> neighbours,
         failing |-> failing,
         writes |-> <<>>]

Stores ==
    {MakeStore(v, n, p, x) : v \in VectorMaps, n \in NeighbourMaps, p \in PayloadMaps,
                            x \in FailingCalls}

SearchFilters ==
    {None, Some(NoConstraint),
     Some([NoConstraint EXCEPT !.min_price = Some(2), !.max_price = Some(3)])}

\* the arguments of a call
SearchInputs ==
    [property_id : {"A", "B"}, mode : ModeValues, filters : SearchFilters, top_k : 1..MaxTopK]

\* the stores and arguments of the interleaved calls
SharedStores ==
    {MakeStore(AllIndexed, [id \in StoreIds |-> SelfFirstNeighbours(id)],
               [id \in StoreIds |-> Payload(GoodRecord, id)], {}),
     MakeStore([AllIndexed EXCEPT !["B"]["visual"] = "no_point"], RotationForA,
               [id \in StoreIds |-> Payload(GoodRecord, id)], {<<"payload", "D">>})}

SharedInputs ==
    {[property_id |-> "A", mode |-> "balanced", filters |-> None, top_k |-> 1],
     [property_id |-> "B", mode |-> "visual_focus",
      filters |-> Some([NoConstraint EXCEPT !.min_price = Some(2)]), top_k |-> MaxTopK],
     [property_id |-> "C", mode |-> "unknown", filters |-> None, top_k |-> 1]}

\* the store without some collections: they hold no point
WithoutCollections(store, missing) ==
    [store EXCEPT
        !.collections = @ \ missing,
        !.vectors = [id \in StoreIds |-> [f \in FacetSet |->
                        IF f \in missing THEN "no_point" ELSE @[id][f]]],
        !.payloads = [id \in StoreIds |-> IF "location" \in missing THEN NoPoint ELSE @[id]],
        !.neighbours = [q \in StoreIds |-> [f \in FacetSet |->
                           IF f \in missing THEN <<>> ELSE @[q][f]]]]

\* the stores that are written while a search runs: B not indexed yet, with every
\* collection, with a collection or all of them missing, and with a failing write
StoreBeforeB ==
    MakeStore(WithoutB, RotationForA,
              [id \in StoreIds |-> IF id = "C" THEN EmptyPayload ELSE Payload(GoodRecord, id)],
              {})

\* B in features_vectors and visual_vectors, not yet in location_vectors
StoreBeforeLocationB ==
    MakeStore(AllIndexed, RotationForA,
              [id \in StoreIds |-> CASE id = "B" -> NoPoint
                                     [] id = "C" -> EmptyPayload
                                     [] OTHER -> Payload(GoodRecord, id)],
              {})

\* every id indexed, D among the neighbours of A
StoreWithD ==
    MakeStore(AllIndexed, [id \in StoreIds |-> DisjointNeighbours],
              [id \in StoreIds |-> Payload(GoodRecord, id)], {})

WrittenStores ==
    {StoreBeforeB,
     StoreBeforeLocationB,
     StoreWithD,
     WithoutCollections(StoreBeforeB, {"visual"}),
     WithoutCollections(StoreBeforeB, FacetSet),
     [StoreBeforeB EXCEPT !.failing = {<<"upsert", "features">>}],
     [StoreBeforeB EXCEPT !.failing = {<<"get_collection", "features">>}],
     [WithoutCollections(StoreBeforeB, {"visual"})
         EXCEPT !.failing = {<<"get_collection", "visual">>}],
     [WithoutCollections(StoreBeforeB, {"visual"})
         EXCEPT !.failing = {<<"create_collection", "visual">>}]}

WrittenInputs ==
    {[property_id |-> "A", mode |-> "balanced", filters |-> None, top_k |-> 1],
     [property_id |-> "B", mode |-> "balanced", filters |-> Some(NoConstraint), top_k |-> 1]}

\* the argument of index_property: the record, whether it has the required fields, and
\* whether an image embedding could be made of its photos
IndexInputs ==
    {[id |-> "B", prop |-> GoodRecord, valid |-> TRUE, images |-> TRUE],
     [id |-> "B", prop |-> GoodRecord, valid |-> FALSE, images |-> TRUE],
     [id |-> "B", prop |-> GoodRecord, valid |-> TRUE, images |-> FALSE],
     [id |-> "D", prop |-> CostlyRecord, valid |-> TRUE, images |-> TRUE]}

(***************************************************************************)
(* search_similar_properties: the code.  A call is a frame: its arguments, *)
(* its locals, and pc, the statement it is at.  Every call of the store is *)
(* one step, so that calls interleave between them.                        *)
(***************************************************************************)
\* list[:n]
Take(list, n) == SubSeq(list, 1, IF n < Len(list) THEN n ELSE Len(list))

\* a call that has not begun
NewFrame(in) ==
    [property_id |-> in.property_id, mode |-> in.mode, filters |-> in.filters,
     top_k |-> in.top_k,
     pc |-> "start", weights |-> None, key |-> 1, search_results |-> <<>>,
     merged |-> <<>>, merges |-> 0, next |-> 1, properties |-> <<>>,
     client_calls |-> 0, caught |-> None, status |-> "pending", result |-> <<>>]

\* a frame no call uses
UnusedFrame ==
    [NewFrame([property_id |-> "A", mode |-> "balanced", filters |-> None, top_k |-> 1])
        EXCEPT !.pc = "unused"]

\* a write of a local kept on self instead: every call sees the search_results of the last writer
WriteFrameOnSelf(cs, c, frame) ==
    [d \in DOMAIN cs |->
        IF d = c THEN frame ELSE [cs[d] EXCEPT !.search_results = frame.search_results]]

\* the locals of a call are its own
WriteFrame(cs, c, frame) == [cs EXCEPT ![c] = frame]

\* except Exception as e: logging.error(...); return []
Caught(frame, exception) ==
    [frame EXCEPT !.pc = "done", !.caught = Some(exception), !.status = "returned",
                  !.result = <<>>]

\* a call of the store on a collection raises: the collection is missing, or the call fails
Fails(cl, op, f) == f \notin cl.collections \/ <<op, f>> \in cl.failing

\* what client.search gives back by the vector of q in the collection f, before the limit
Ranked(cl, q, f) == SelectSeq(cl.neighbours[q][f], LAMBDA id : cl.vectors[id][f] = "vector")

\* weights = self.search_modes[mode.value]
ResolveWeights(c) ==
    LET frame == calls[c]
    IN  /\ frame.pc = "start"
        /\ calls' = WriteFrame(calls, c,
               IF frame.mode \in DOMAIN self_search_modes
               THEN [frame EXCEPT !.weights = Some(self_search_modes[frame.mode]),
                                  !.pc = "retrieve"]
               ELSE Caught(frame, "KeyError"))
        /\ UNCHANGED <<client, self_search_modes, indexing, setup>>

\* initial_vector_result = self.client.retrieve(...); raise ValueError if there is no vector
RetrieveVector(c) ==
    LET frame == calls[c]
        f == Facets[frame.key]
        called == [frame EXCEPT !.client_calls = @ + 1]
    IN  /\ frame.pc = "retrieve"
        /\ calls' = WriteFrame(calls, c,
               IF Fails(client, "retrieve", f)
               THEN Caught(called, "StoreError")
               ELSE IF client.vectors[frame.property_id][f] # "vector"
               THEN Caught(called, "ValueError")
               ELSE [called EXCEPT !.pc = "search"])
        /\ UNCHANGED <<client, self_search_modes, indexing, setup>>

\* results = self.client.search(..., limit=top_k * 2); search_results[key] = results
SearchNeighbours(c) ==
    LET frame == calls[c]
        f == Facets[frame.key]
        called == [frame EXCEPT !.client_calls = @ + 1]
        results == Take(Ranked(client, frame.property_id, f), frame.top_k * 2)
    IN  /\ frame.pc = "search"
        /\ calls' = WriteFrame(calls, c,
               IF Fails(client, "search", f)
               THEN Caught(called, "StoreError")
               ELSE [called EXCEPT
                        !.search_results = Append(@, [key |-> f, results |-> results]),
                        !.key = @ + 1,
                        !.pc = IF frame.key = Len(Facets) THEN "merge" ELSE "retrieve"])
        /\ UNCHANGED <<client, self_search_modes, indexing, setup>>

\* merged_results = self._weighted_rrf_merge(search_results, weights)
Merge(c) ==
    LET frame == calls[c]
        merged_results == weighted_rrf_merge(frame.search_results, frame.weights[1], K)
    IN  /\ frame.pc = "merge"
        /\ calls' = WriteFrame(calls, c,
               [frame EXCEPT !.merged = merged_results,
                             !.merges = @ + 1,
                             !.pc = IF Take(merged_results, frame.top_k * 5) = <<>>
                                    THEN "filter" ELSE "hydrate"])
        /\ UNCHANGED <<client, self_search_modes, indexing, setup>>

\* the body of the hydration loop with the query's own record let through
HydratedWithQuery(props, point, prop_id, property_id) ==
    IF point.point /\ point.payload # None
    THEN Append(props, point.payload[1])
    ELSE props

\* if point and point[0].payload: if prop_id != property_id: properties.append(...)
Hydrated(props, point, prop_id, property_id) ==
    IF point.point /\ point.payload # None
    THEN IF prop_id # property_id THEN Append(props, point.payload[1]) ELSE props
    ELSE props

\* one round of: for prop_id, _ in merged_results[:top_k * 5]: point = self.client.retrieve(...)
Hydrate(c) ==
    LET frame == calls[c]
        candidates == Take(frame.merged, frame.top_k * 5)
        prop_id == candidates[frame.next].id
        called == [frame EXCEPT !.client_calls = @ + 1]
    IN  /\ frame.pc = "hydrate"
        /\ calls' = WriteFrame(calls, c,
               IF "location" \notin client.collections \/ <<"payload", prop_id>> \in client.failing
               THEN Caught(called, "StoreError")
               ELSE [called EXCEPT
                        !.properties = Hydrated(@, client.payloads[prop_id], prop_id,
                                                frame.property_id),
                        !.next = @ + 1,
                        !.pc = IF frame.next = Len(candidates) THEN "filter" ELSE "hydrate"])
        /\ UNCHANGED <<client, self_search_modes, indexing, setup>>

\* filtered_results = self.apply_filters(properties, filters); return filtered_results[:top_k]
FilterAndReturn(c) ==
    LET frame == calls[c]
    IN  /\ frame.pc = "filter"
        /\ calls' = WriteFrame(calls, c,
               [frame EXCEPT !.result = Take(apply_filters(frame.properties, frame.filters),
                                             frame.top_k),
                             !.status = "returned",
                             !.pc = "done"])
        /\ UNCHANGED <<client, self_search_modes, indexing, setup>>

(***************************************************************************)
(* PropertyIndexer.index_property and initialize_collections               *)
(* (src/property_match.py): the writers of the store.  Every call of the   *)
(* client is one step, and so is sleep(1).                                 *)
(***************************************************************************)
NewIndexing(data) == [data |-> data, pc |-> "start", key |-> 1, returned |-> "pending"]

UnusedIndexing == [NewIndexing(CHOOSE d \in IndexInputs : TRUE) EXCEPT !.pc = "unused"]

NewSetup == [pc |-> "get", key |-> 1]

UnusedSetup == [pc |-> "unused", key |-> 1]

\* the store after client.upsert of the point id into the collection f.  payloads holds
\* those of location_vectors, the one collection a payload is read from.  The collection
\* ranks the point from then on: every point is written with the same vector, so the ids
\* a ranking lists keep their order, and a point it did not list comes after them
Upserted(cl, f, id, payload) ==
    [cl EXCEPT
        !.vectors[id][f] = "vector",
        !.payloads[id] = IF f = "location" THEN [point |-> TRUE, payload |-> Some(payload)]
                         ELSE @,
        !.neighbours = [q \in StoreIds |-> [g \in FacetSet |->
                           IF g = f /\ \A i \in 1..Len(@[q][g]) : @[q][g][i] # id
                           THEN Append(@[q][g], id)
                           ELSE @[q][g]]],
        !.writes = Append(@, <<"upsert", f, id>>)]

\* validate_property_data, the embeddings; raise ValueError when either fails
BeginIndexing ==
    /\ indexing.pc = "start"
    /\ indexing' = IF indexing.data.valid /\ indexing.data.images
                   THEN [indexing EXCEPT !.pc = "upsert"]
                   ELSE [indexing EXCEPT !.pc = "done", !.returned = "False"]
    /\ UNCHANGED <<client, self_search_modes, calls, setup>>

\* one round of: for collection, vector in zip(collections, vectors): self.client.upsert(...)
\* and after the last the return of True; an exception is caught and False returned
UpsertPoint ==
    LET f == Facets[indexing.key]
        data == indexing.data
    IN  /\ indexing.pc = "upsert"
        /\ IF Fails(client, "upsert", f)
           THEN /\ indexing' = [indexing EXCEPT !.pc = "done", !.returned = "False"]
                /\ UNCHANGED client
           ELSE /\ client' = Upserted(client, f, data.id, WithId(data.prop, data.id))
                /\ indexing' = IF indexing.key = Len(Facets)
                               THEN [indexing EXCEPT !.pc = "done", !.returned = "True"]
                               ELSE [indexing EXCEPT !.key = @ + 1]
        /\ UNCHANGED <<self_search_modes, calls, setup>>

\* what follows a round of initialize_collections: the next collection, or the return
NextRound(position) ==
    IF position.key = Len(Facets) THEN [position EXCEPT !.pc = "done"]
    ELSE [position EXCEPT !.key = @ + 1, !.pc = "get"]

\* try: client.get_collection(collection_name=collection); except Exception: go on to
\* create the collection
GetCollection ==
    LET f == Facets[setup.key]
    IN  /\ setup.pc = "get"
        /\ setup' = IF Fails(client, "get_collection", f)
                     THEN [setup EXCEPT !.pc = "create"]
                     ELSE NextRound(setup)
        /\ UNCHANGED <<client, self_search_modes, calls, indexing>>

\* client.create_collection(...), then up to sleep(1); the store refuses to create a
\* collection it has, and the exception is not caught
CreateCollection ==
    LET f == Facets[setup.key]
    IN  /\ setup.pc = "create"
        /\ IF f \in client.collections \/ <<"create_collection", f>> \in client.failing
           THEN /\ setup' = [setup EXCEPT !.pc = "raised"]
                /\ UNCHANGED client
           ELSE /\ client' = [client EXCEPT !.collections = @ \cup {f},
                                            !.writes = Append(@, <<"create", f, "">>)]
                /\ setup' = [setup EXCEPT !.pc = "sleep"]
        /\ UNCHANGED <<self_search_modes, calls, indexing>>

\* sleep(1), the collection created and the function still in the round
Sleep ==
    /\ setup.pc = "sleep"
    /\ setup' = [setup EXCEPT !.pc = "get_created"]
    /\ UNCHANGED <<client, self_search_modes, calls, indexing>>

\* collection_info = client.get_collection(collection), outside the try
GetCreatedCollection ==
    LET f == Facets[setup.key]
    IN  /\ setup.pc = "get_created"
        /\ setup' = IF Fails(client, "get_collection", f)
                     THEN [setup EXCEPT !.pc = "raised"]
                     ELSE NextRound(setup)
        /\ UNCHANGED <<client, self_search_modes, calls, indexing>>

(***************************************************************************)
(* The search specification: one call on each of many stores, NumCalls     *)
(* interleaved calls on a few, and one call interleaved with the writers   *)
(* of the store on a few.                                                  *)
(***************************************************************************)
InitSearch ==
    /\ \/ /\ client \in Stores
          /\ calls \in {[c \in Calls |-> IF c = 1 THEN NewFrame(in) ELSE UnusedFrame] :
                            in \in SearchInputs}
          /\ indexing = UnusedIndexing
          /\ setup = UnusedSetup
       \/ /\ client \in SharedStores
          /\ calls \in {[c \in Calls |-> NewFrame(ins[c])] : ins \in [Calls -> SharedInputs]}
          /\ indexing = UnusedIndexing
          /\ setup = UnusedSetup
       \/ /\ client \in WrittenStores
          /\ calls \in {[c \in Calls |-> IF c = 1 THEN NewFrame(in) ELSE UnusedFrame] :
                            in \in WrittenInputs}
          /\ indexing \in {NewIndexing(data) : data \in IndexInputs}
          /\ setup \in {NewSetup, UnusedSetup}
    /\ self_search_modes = search_modes
    /\ search_results = <<>>
    /\ weights = search_modes.balanced
    /\ merged = <<>>
    /\ outcome = "idle"
    /\ properties = <<>>
    /\ filters = None
    /\ filtered_results = <<>>
    /\ filter_outcome = "idle"

NextSearch ==
    /\ \/ \E c \in Calls :
              \/ ResolveWeights(c)
              \/ RetrieveVector(c)
              \/ SearchNeighbours(c)
              \/ Merge(c)
              \/ Hydrate(c)
              \/ FilterAndReturn(c)
       \/ BeginIndexing
       \/ UpsertPoint
       \/ GetCollection
       \/ CreateCollection
       \/ Sleep
       \/ GetCreatedCollection
    /\ UNCHANGED fusion_vars
    /\ UNCHANGED filter_vars

SpecSearch == InitSearch /\ [][NextSearch]_vars

(***************************************************************************)
(* Vocabulary of the search claims.                                        *)
(***************************************************************************)
\* the first n elements
Prefix(list, n) == [i \in 1..(IF n < Len(list) THEN n ELSE Len(list)) |-> list[i]]

RecordIds(records) == [i \in 1..Len(records) |-> records[i]["id"][1]]

\* the call has ended
Ended(frame) == frame.pc = "done"

\* nothing was written to the store, by index_property or by initialize_collections
Unwritten(cl) == cl.writes = <<>>

\* the query entity lacks a vector in some collection
LacksVector(frame) == \E f \in FacetSet : client.vectors[frame.property_id][f] # "vector"

\* the id has a record the store gives back
Retrievable(id) == client.payloads[id].point /\ client.payloads[id].payload # None

RecordsOf(ids) == [i \in 1..Len(ids) |-> client.payloads[ids[i]].payload[1]]

\* the records of the first top_k * 5 fused ids that are not the query and are retrievable
HydratedCandidates(frame) ==
    RecordsOf(SelectSeq(IdsOf(Prefix(frame.merged, frame.top_k * 5)),
                        LAMBDA id : id # frame.property_id /\ Retrievable(id)))

\* the records the call hydrated that the filter keeps
PassingCandidates(frame) ==
    IF frame.filters = None THEN frame.properties
    ELSE SelectSeq(frame.properties,
                   LAMBDA prop : EvalRecord(prop, frame.filters[1]) = "keep")

\* what one call returns when it runs alone on the store
SearchAlone(cl, table, in) ==
    IF in.mode \notin DOMAIN table THEN <<>>
    ELSE IF \E f \in FacetSet : \/ Fails(cl, "retrieve", f)
                                \/ Fails(cl, "search", f)
                                \/ cl.vectors[in.property_id][f] # "vector"
    THEN <<>>
    ELSE LET lists == [i \in 1..Len(Facets) |->
                          Prefix(Ranked(cl, in.property_id, Facets[i]), in.top_k * 2)]
             fused == IdsOf(Prefix(weighted_rrf_merge(FacetMap(lists), table[in.mode], K),
                                   in.top_k * 5))
         IN  IF \E i \in 1..Len(fused) : <<"payload", fused[i]>> \in cl.failing THEN <<>>
             ELSE LET ids == SelectSeq(fused, LAMBDA id :
                                 /\ id # in.property_id
                                 /\ cl.payloads[id].point
                                 /\ cl.payloads[id].payload # None)
                      records == [i \in 1..Len(ids) |-> cl.payloads[ids[i]].payload[1]]
                  IN  Prefix(apply_filters(records, in.filters), in.top_k)

(***************************************************************************)
(* Claims about search_similar_properties, checked under SpecSearch.       *)
(***************************************************************************)

\* C12: a search whose query entity lacks a vector in some collection, on a store that
\* has the three collections and that is not written meanwhile, ends in a failure raised
\* to the caller, and _weighted_rrf_merge is not called in it.
C12_MissingVectorIsReported ==
    \A c \in Calls :
        (/\ Ended(calls[c])
         /\ calls[c].mode \in DOMAIN search_modes
         /\ client.failing = {}
         /\ client.collections = FacetSet
         /\ Unwritten(client)
         /\ LacksVector(calls[c])) =>
            /\ calls[c].status = "raised"
            /\ calls[c].merges = 0

\* C13: a search ends either with the complete filtered ranking, nothing having gone
\* wrong on the way, or with a failure raised to the caller; a search that was cut short
\* does not return a list as a search with no matches does.  The ranking is that of the
\* candidates the call hydrated, which on a store that is not written are those the
\* store holds.
C13_CompleteRankingOrExplicitFailure ==
    \A c \in Calls :
        Ended(calls[c]) =>
            \/ calls[c].status = "raised"
            \/ /\ calls[c].status = "returned"
               /\ calls[c].caught = None
               /\ calls[c].result = Prefix(PassingCandidates(calls[c]), calls[c].top_k)
               /\ Unwritten(client) => calls[c].properties = HydratedCandidates(calls[c])

\* C14: a search called with a mode that is no key of the weight-profile table ends in a
\* failure raised to the caller, and has made no call of the store.
C14_UnknownModeIsReported ==
    \A c \in Calls :
        (Ended(calls[c]) /\ calls[c].mode \notin DOMAIN search_modes) =>
            /\ calls[c].status = "raised"
            /\ calls[c].client_calls = 0

\* C15: whatever the store holds, the record of the query entity is neither among the
\* records passed to the filter nor in the list returned, also when the query id is among
\* the fused ids.
C15_QueryRecordNeverReturned ==
    \A c \in Calls :
        Unwritten(client) =>
        /\ \A i \in 1..Len(calls[c].properties) :
               calls[c].properties[i]["id"] # Some(calls[c].property_id)
        /\ \A i \in 1..Len(calls[c].result) :
               calls[c].result[i]["id"] # Some(calls[c].property_id)

C15_Witness ==
    \E c \in Calls :
        /\ Ended(calls[c])
        /\ calls[c].caught = None
        /\ calls[c].filters = None
        /\ \E i \in 1..Len(Prefix(calls[c].merged, calls[c].top_k * 5)) :
               calls[c].merged[i].id = calls[c].property_id
        /\ Retrievable(calls[c].property_id)
        /\ calls[c].result # <<>>
        /\ Unwritten(client)

\* C16: the list returned has at most top_k records, in the order of their ids in the
\* fused ranking, and is the first top_k, in fused order, of the candidates the call
\* hydrated that pass the filter.
C16_FirstTopKInFusedOrder ==
    \A c \in Calls :
        (Ended(calls[c]) /\ Unwritten(client)) =>
            /\ Len(calls[c].result) <= calls[c].top_k
            /\ IsSubsequence(RecordIds(calls[c].result), IdsOf(calls[c].merged))
            /\ calls[c].result = Prefix(PassingCandidates(calls[c]), calls[c].top_k)

\* C17: however the calls interleave, on a store that is not written each returns what it
\* returns when run alone on the store, and the weight-profile table stays as the
\* constructor made it.
C17_CallsDoNotInterfere ==
    /\ self_search_modes = search_modes
    /\ \A c \in Calls :
           (Ended(calls[c]) /\ Unwritten(client)) =>
               calls[c].result =
                   SearchAlone(client, search_modes,
                               [property_id |-> calls[c].property_id, mode |-> calls[c].mode,
                                filters |-> calls[c].filters, top_k |-> calls[c].top_k])

C17_Witness ==
    \E c, d \in Calls :
        /\ Ended(calls[c]) /\ Ended(calls[d])
        /\ calls[c].property_id # calls[d].property_id
        /\ calls[c].result # <<>>
        /\ calls[d].result # <<>>
        /\ calls[c].result # calls[d].result
        /\ Unwritten(client)

\* C18: on a store that is not written, the records passed to the filter are those of the
\* first top_k * 5 fused ids other than the query id, less the ids with no retrievable
\* record: the query id takes none of the top_k * 5 places.
C18_QueryTakesNoPlace ==
    \A c \in Calls :
        (Ended(calls[c]) /\ calls[c].caught = None /\ Unwritten(client)) =>
            calls[c].properties =
                RecordsOf(SelectSeq(
                    Prefix(SelectSeq(IdsOf(calls[c].merged),
                                     LAMBDA id : id # calls[c].property_id),
                           calls[c].top_k * 5),
                    Retrievable))

====
